---- MODULE Spec2Model ----
(***************************************************************************)
(* Model of the VPN metrics exporter                                       *)
(* (testbed/monitoring/exporter/vpn_exporter.py).                          *)
(*                                                                         *)
(* Text is modelled as a sequence of chunks (strings); where the code      *)
(* looks at single characters (the public key it truncates, the interface  *)
(* name it prefix-matches, the numbers it prints) a chunk is one           *)
(* character.  A tool's stdout is kept in split form: the WireGuard dump   *)
(* is a sequence of lines ('\n'-separated), each a non-empty sequence of   *)
(* fields ('\t'-separated), so that str.split is the identity on the       *)
(* representation while str.strip is not.                                  *)
(*                                                                         *)
(* A line of the exposition text is a record [kind, name, labels, value]:  *)
(* the f-strings of the code fix the line's text from these four parts.    *)
(***************************************************************************)
EXTENDS Integers, Sequences, FiniteSets, TLC

VARIABLES
    WIREGUARD_INTERFACE, \* configuration, read once at start-up
    IPSEC_CHECK,         \* configuration, read once at start-up
    now,                 \* the clock, in seconds (time.time())
    pc,                  \* the position of the (single-threaded) server
    path,                \* the path of the request being handled
    all_metrics,         \* collect_all's list of lines
    escaped,             \* an exception left a collector and ended collect_all
    wgRes, ipsecRes, netRes, pingRes, \* what each probe of this scrape returned
    probed,              \* the probes this request has run, in order
    seg,                 \* the lines each collector returned in this scrape
    cycles,              \* the collect_all calls of this request
    response,            \* the answer to the last request handled
    frozen,              \* the system state is that of the previous scrape
    prevBody,            \* the body of the previous scrape, while frozen
    self_metrics, self_labels, \* the fields of the collector object all handlers share
    hpc,                 \* the position of each handler of the threaded server
    hres,                \* what the probes of each handler's scrape returned
    lists,               \* the list objects the collect_all calls have made
    hresp,               \* the answer each handler sent last
    concurrent           \* another handler's scrape overlapped this handler's

\* The state of the server that handles one request at a time.
seqvars == <<pc, path, all_metrics, escaped, wgRes, ipsecRes, netRes, pingRes,
             probed, seg, cycles, response, frozen, prevBody>>

\* The state of the handlers that run side by side.
thvars == <<self_metrics, self_labels, hpc, hres, lists, hresp, concurrent>>

vars == <<WIREGUARD_INTERFACE, IPSEC_CHECK, now, pc, path, all_metrics, escaped,
          wgRes, ipsecRes, netRes, pingRes, probed, seg, cycles, response,
          frozen, prevBody, self_metrics, self_labels, hpc, hres, lists, hresp,
          concurrent>>

-----------------------------------------------------------------------------
(* Bounds of the model.                                                    *)

\* The peer records of a WireGuard dump, after the interface line.
MaxPeers == 2
\* The last second of the clock.
MaxClock == 1
\* The handlers that can be at work at the same time.
NumHandlers == 2

-----------------------------------------------------------------------------
(* Text helpers.                                                           *)

EMPTY == <<>>

Rep(c, n) == [i \in 1..n |-> c]

Min(a, b) == IF a < b THEN a ELSE b

Front(s) == SubSeq(s, 1, Len(s) - 1)

Last(s) == s[Len(s)]

\* s[:n]
Prefix(s, n) == SubSeq(s, 1, Min(n, Len(s)))

\* s.startswith(p)
StartsWith(s, p) == Len(p) <= Len(s) /\ SubSeq(s, 1, Len(p)) = p

Digit(d) == CASE d = 0 -> "0" [] d = 1 -> "1" [] d = 2 -> "2" [] d = 3 -> "3"
              [] d = 4 -> "4" [] d = 5 -> "5" [] d = 6 -> "6" [] d = 7 -> "7"
              [] d = 8 -> "8" [] OTHER -> "9"

\* str(n) of a natural number
RECURSIVE Str(_)
Str(n) == IF n < 10 THEN <<Digit(n)>> ELSE Str(n \div 10) \o <<Digit(n % 10)>>

\* The number of elements of s equal to x (str.count of a keyword, the text
\* being a sequence of words).
RECURSIVE Count(_, _)
Count(s, x) == IF s = <<>> THEN 0
               ELSE (IF Head(s) = x THEN 1 ELSE 0) + Count(Tail(s), x)

\* str.strip() on the right of a text in split form: trailing '\t' and '\n'
\* go, that is trailing empty fields and trailing empty lines.
RECURSIVE RStrip(_)
RStrip(t) ==
    LET last == Last(t) IN
    IF Last(last) # EMPTY THEN t
    ELSE IF Len(last) > 1 THEN RStrip(Front(t) \o <<Front(last)>>)
    ELSE IF Len(t) > 1 THEN RStrip(Front(t))
    ELSE t

\* str.strip() on the left.
RECURSIVE LStrip(_)
LStrip(t) ==
    LET first == Head(t) IN
    IF Head(first) # EMPTY THEN t
    ELSE IF Len(first) > 1 THEN LStrip(<<Tail(first)>> \o Tail(t))
    ELSE IF Len(t) > 1 THEN LStrip(Tail(t))
    ELSE t

\* result.stdout.strip().split('\n'), each line then split('\t')
Strip(t) == LStrip(RStrip(t))

-----------------------------------------------------------------------------
(* Lines of the exposition text.                                           *)

Sample(name, labels, value) ==
    [kind |-> "sample", name |-> name, labels |-> labels, value |-> value]

Help(name, text) ==
    [kind |-> "help", name |-> name, labels |-> <<>>, value |-> <<text>>]

Type(name, type) ==
    [kind |-> "type", name |-> name, labels |-> <<>>, value |-> <<type>>]

\* What a collector hands back: its list, or an exception that left it.
Ret(lines) == [lines |-> lines, raised |-> FALSE]

Raise == [lines |-> <<>>, raised |-> TRUE]

T(s) == <<s>>

-----------------------------------------------------------------------------
(* Probe results: what subprocess.run (or open) did.                       *)

NotFound == [tag |-> "not_found", rc |-> 0, stdout |-> <<>>]  \* FileNotFoundError
Timeout == [tag |-> "timeout", rc |-> 0, stdout |-> <<>>]     \* TimeoutExpired
Failed == [tag |-> "exception", rc |-> 0, stdout |-> <<>>]    \* another exception
Exit(rc, stdout) == [tag |-> "exit", rc |-> rc, stdout |-> stdout]
NoRes == [tag |-> "none", rc |-> 0, stdout |-> <<>>]          \* not probed

-----------------------------------------------------------------------------
(* collect_wireguard_metrics                                               *)

\* parts[0][:12]
TruncLen == 12

NONE == <<"(none)">>

UNKNOWN == <<"unknown">>

WgStatus(iface, v) ==
    Sample("vpn_tunnel_status",
           <<<<"vpn_type", T("wireguard")>>, <<"interface", iface>>>>, T(v))

ExporterError(vpn_type, error) ==
    Sample("vpn_exporter_error",
           <<<<"vpn_type", T(vpn_type)>>, <<"error", T(error)>>>>, T("1"))

\* parts[0][:12] + "..."
PublicKeyLabel(key) == Prefix(key, TruncLen) \o <<"...">>

\* A mutant of PeerSamples: the transmit counter is left out.
PeerSamplesNoTx(iface, parts) ==
    LET public_key == PublicKeyLabel(parts[1])
        endpoint == IF parts[3] # NONE THEN parts[3] ELSE UNKNOWN
    IN  << Sample("wireguard_peer_receive_bytes_total",
                  <<<<"interface", iface>>, <<"public_key", public_key>>,
                    <<"endpoint", endpoint>>>>, parts[6]),
           Sample("wireguard_peer_last_handshake_seconds",
                  <<<<"interface", iface>>, <<"public_key", public_key>>>>,
                  parts[5]) >>

\* The three samples of one peer line of at least 8 fields.
PeerSamples(iface, parts) ==
    LET public_key == PublicKeyLabel(parts[1])
        endpoint == IF parts[3] # NONE THEN parts[3] ELSE UNKNOWN
        rx_bytes == parts[6]
        tx_bytes == parts[7]
        latest_handshake == parts[5]
    IN  << Sample("wireguard_peer_receive_bytes_total",
                  <<<<"interface", iface>>, <<"public_key", public_key>>,
                    <<"endpoint", endpoint>>>>, rx_bytes),
           Sample("wireguard_peer_transmit_bytes_total",
                  <<<<"interface", iface>>, <<"public_key", public_key>>,
                    <<"endpoint", endpoint>>>>, tx_bytes),
           Sample("wireguard_peer_last_handshake_seconds",
                  <<<<"interface", iface>>, <<"public_key", public_key>>>>,
                  latest_handshake) >>

\* for line in lines[1:]: the samples of the lines of at least 8 fields.
RECURSIVE PeerLines(_, _)
PeerLines(iface, lines) ==
    IF lines = <<>> THEN <<>>
    ELSE (IF Len(Head(lines)) >= 8 THEN PeerSamples(iface, Head(lines)) ELSE <<>>)
         \o PeerLines(iface, Tail(lines))

\* A mutant of collect_wireguard_metrics: an exception of the probe other
\* than not-found and timeout is not caught.
collect_wireguard_metrics_reraise(iface, res) ==
    IF res.tag = "not_found"
    THEN Ret(<<WgStatus(iface, "0"), ExporterError("wireguard", "wg_not_found")>>)
    ELSE IF res.tag = "timeout" THEN Ret(<<ExporterError("wireguard", "timeout")>>)
    ELSE IF res.tag = "exception" THEN Raise
    ELSE IF res.rc = 0
    THEN Ret(<<WgStatus(iface, "1")>> \o PeerLines(iface, Tail(Strip(res.stdout))))
    ELSE Ret(<<WgStatus(iface, "0")>>)

\* A mutant of collect_wireguard_metrics: a missing binary is reported like
\* any other exception, with no status sample.
collect_wireguard_metrics_no_status(iface, res) ==
    IF res.tag = "not_found"
    THEN Ret(<<ExporterError("wireguard", "wg_not_found")>>)
    ELSE IF res.tag = "timeout" THEN Ret(<<ExporterError("wireguard", "timeout")>>)
    ELSE IF res.tag = "exception" THEN Ret(<<ExporterError("wireguard", "exception")>>)
    ELSE IF res.rc = 0
    THEN Ret(<<WgStatus(iface, "1")>> \o PeerLines(iface, Tail(Strip(res.stdout))))
    ELSE Ret(<<WgStatus(iface, "0")>>)

collect_wireguard_metrics(iface, res) ==
    IF res.tag = "not_found"
    THEN Ret(<<WgStatus(iface, "0"), ExporterError("wireguard", "wg_not_found")>>)
    ELSE IF res.tag = "timeout" THEN Ret(<<ExporterError("wireguard", "timeout")>>)
    ELSE IF res.tag = "exception" THEN Ret(<<ExporterError("wireguard", "exception")>>)
    ELSE IF res.rc = 0
    THEN \* split('\n') of any text has a first line: "if lines" always holds
         Ret(<<WgStatus(iface, "1")>> \o PeerLines(iface, Tail(Strip(res.stdout))))
    ELSE Ret(<<WgStatus(iface, "0")>>)

-----------------------------------------------------------------------------
(* collect_ipsec_metrics.  The status text is a sequence of words          *)
(* (whitespace-separated), each a sequence of chunks; a keyword or a run   *)
(* of digits is one chunk.                                                 *)

NumChunks == {"5", "7", "789012"}

RECURSIVE Flatten(_)
Flatten(words) == IF words = <<>> THEN <<>> ELSE Head(words) \o Flatten(Tail(words))

\* re.search(r'(\d+)\s+<unit>', output): the digits that end the first word
\* followed by a word that starts with the unit; <<>> when there is none.
RECURSIVE BytesMatch(_, _)
BytesMatch(words, unit) ==
    IF Len(words) < 2 THEN <<>>
    ELSE IF Last(words[1]) \in NumChunks /\ Head(words[2]) = unit
         THEN <<Last(words[1])>>
         ELSE BytesMatch(Tail(words), unit)

IpsecStatus(v) == Sample("vpn_tunnel_status", <<<<"vpn_type", T("ipsec")>>>>, T(v))

\* A mutant of collect_ipsec_metrics: the keywords are counted as whole
\* words, so "INSTALLED," is missed.
collect_ipsec_metrics_words(enabled, res) ==
    IF ~enabled THEN Ret(<<>>)
    ELSE IF res.tag = "not_found"
    THEN Ret(<<IpsecStatus("0"), ExporterError("ipsec", "ipsec_not_found")>>)
    ELSE IF res.tag = "timeout" THEN Ret(<<ExporterError("ipsec", "timeout")>>)
    ELSE IF res.tag = "exception" THEN Ret(<<ExporterError("ipsec", "exception")>>)
    ELSE IF res.rc = 0
    THEN LET output == res.stdout
             established == Count(output, <<"ESTABLISHED">>)
             installed == Count(output, <<"INSTALLED">>)
             rx_match == BytesMatch(output, "bytes_i")
             tx_match == BytesMatch(output, "bytes_o")
         IN  Ret(<<IpsecStatus(IF established > 0 THEN "1" ELSE "0"),
                   Sample("ipsec_connections_established", <<>>, Str(established)),
                   Sample("ipsec_sas_installed", <<>>, Str(installed))>>
                 \o (IF rx_match # <<>>
                     THEN <<Sample("ipsec_receive_bytes_total", <<>>, rx_match)>>
                     ELSE <<>>)
                 \o (IF tx_match # <<>>
                     THEN <<Sample("ipsec_transmit_bytes_total", <<>>, tx_match)>>
                     ELSE <<>>))
    ELSE Ret(<<IpsecStatus("0")>>)

collect_ipsec_metrics(enabled, res) ==
    IF ~enabled THEN Ret(<<>>)
    ELSE IF res.tag = "not_found"
    THEN Ret(<<IpsecStatus("0"), ExporterError("ipsec", "ipsec_not_found")>>)
    ELSE IF res.tag = "timeout" THEN Ret(<<ExporterError("ipsec", "timeout")>>)
    ELSE IF res.tag = "exception" THEN Ret(<<ExporterError("ipsec", "exception")>>)
    ELSE IF res.rc = 0
    THEN LET output == res.stdout
             established == Count(Flatten(output), "ESTABLISHED")
             installed == Count(Flatten(output), "INSTALLED")
             rx_match == BytesMatch(output, "bytes_i")
             tx_match == BytesMatch(output, "bytes_o")
         IN  Ret(<<IpsecStatus(IF established > 0 THEN "1" ELSE "0"),
                   Sample("ipsec_connections_established", <<>>, Str(established)),
                   Sample("ipsec_sas_installed", <<>>, Str(installed))>>
                 \o (IF rx_match # <<>>
                     THEN <<Sample("ipsec_receive_bytes_total", <<>>, rx_match)>>
                     ELSE <<>>)
                 \o (IF tx_match # <<>>
                     THEN <<Sample("ipsec_transmit_bytes_total", <<>>, tx_match)>>
                     ELSE <<>>))
    ELSE Ret(<<IpsecStatus("0")>>)

-----------------------------------------------------------------------------
(* collect_network_interface_metrics.  /proc/net/dev is a sequence of      *)
(* lines, each a sequence of ':'-separated parts; the first part is a      *)
(* sequence of characters, the second the sequence of its                  *)
(* whitespace-separated words.                                             *)

interfaces_of_interest ==
    << <<"w", "g", "0">>, <<"w", "g", "1">>, <<"i", "p", "s", "e", "c", "0">>,
       <<"e", "t", "h", "0">>, <<"e", "n", "s">>, <<"e", "n", "p">> >>

\* parts[0].strip(): the blanks around the name go
RECURSIVE StripBlanks(_)
StripBlanks(s) ==
    IF s = <<>> THEN s
    ELSE IF Head(s) = " " THEN StripBlanks(Tail(s))
    ELSE IF Last(s) = " " THEN StripBlanks(Front(s))
    ELSE s

\* any(iface.startswith(prefix) for prefix in interfaces_of_interest)
OfInterest(iface) ==
    \E i \in 1..Len(interfaces_of_interest) : StartsWith(iface, interfaces_of_interest[i])

IfSample(name, iface, value) == Sample(name, <<<<"interface", iface>>>>, value)

\* The samples of one line of the table.
IfLine(parts) ==
    IF Len(parts) # 2 THEN <<>>
    ELSE LET iface == StripBlanks(parts[1])
             stats == parts[2]
         IN  IF ~OfInterest(iface) THEN <<>>
             ELSE IF Len(stats) >= 16
             THEN << IfSample("vpn_interface_rx_bytes", iface, stats[1]),
                     IfSample("vpn_interface_tx_bytes", iface, stats[9]),
                     IfSample("vpn_interface_rx_packets", iface, stats[2]),
                     IfSample("vpn_interface_tx_packets", iface, stats[10]),
                     IfSample("vpn_interface_rx_errors", iface, stats[3]),
                     IfSample("vpn_interface_tx_errors", iface, stats[11]) >>
             ELSE <<>>

RECURSIVE IfLines(_)
IfLines(lines) ==
    IF lines = <<>> THEN <<>> ELSE IfLine(Head(lines)) \o IfLines(Tail(lines))

\* f.readlines()[2:]
SkipHeader(lines) == SubSeq(lines, 3, Len(lines))

\* res is the outcome of open and read: an exception, or the lines read.
collect_network_interface_metrics(res) ==
    IF res.tag # "exit"
    THEN Ret(<<Sample("vpn_exporter_error",
                      <<<<"component", T("network")>>, <<"error", T("proc_read_failed")>>>>,
                      T("1"))>>)
    ELSE Ret(IfLines(SkipHeader(res.stdout)))

-----------------------------------------------------------------------------
(* collect_latency_metrics.  The stdout of ping is <<>> when it holds no   *)
(* line the pattern matches, and <<avg>> when it does, avg being the       *)
(* characters of the pattern's group: digits and dots.                     *)

PING_TARGET == <<"10.10.10.2">>

Digits == {"0", "1", "2", "3", "4", "5", "6", "7", "8", "9"}

RECURSIVE DropLeadingZeros(_)
DropLeadingZeros(s) ==
    IF Len(s) > 1 /\ Head(s) = "0" THEN DropLeadingZeros(Tail(s)) ELSE s

RECURSIVE DropTrailingZeros(_)
DropTrailingZeros(s) ==
    IF Len(s) > 1 /\ Last(s) = "0" THEN DropTrailingZeros(Front(s)) ELSE s

\* Whether float(tok) returns: at most one dot, at least one digit.
ParsesAsFloat(tok) ==
    /\ Count(tok, ".") <= 1
    /\ \E i \in 1..Len(tok) : tok[i] \in Digits

\* The position of the dot of tok, Len(tok) + 1 when it has none.
DotAt(tok) ==
    IF Count(tok, ".") = 0 THEN Len(tok) + 1
    ELSE CHOOSE i \in 1..Len(tok) : tok[i] = "."

\* str(float(tok)) of a decimal token within the range Python prints plainly.
FloatStr(tok) ==
    LET int == SubSeq(tok, 1, DotAt(tok) - 1)
        frac == SubSeq(tok, DotAt(tok) + 1, Len(tok))
    IN  DropLeadingZeros(IF int = <<>> THEN <<"0">> ELSE int)
        \o <<".">>
        \o DropTrailingZeros(IF frac = <<>> THEN <<"0">> ELSE frac)

LatencySample(latency) ==
    Sample("vpn_latency_ms",
           <<<<"vpn_type", T("wireguard")>>, <<"target", PING_TARGET>>>>, latency)

\* A mutant of collect_latency_metrics: an exception of ping is not caught.
collect_latency_metrics_reraise(res) ==
    IF res.tag # "exit" THEN Raise
    ELSE IF res.rc = 0 /\ res.stdout # <<>> /\ ParsesAsFloat(res.stdout[1])
    THEN Ret(<<LatencySample(FloatStr(res.stdout[1]))>>)
    ELSE Ret(<<>>)

\* One target; every exception (of ping, of float) is swallowed.
collect_latency_metrics(res) ==
    IF res.tag # "exit" THEN Ret(<<>>)
    ELSE IF res.rc = 0
    THEN IF res.stdout # <<>>
         THEN IF ParsesAsFloat(res.stdout[1])
              THEN Ret(<<LatencySample(FloatStr(res.stdout[1]))>>)
              ELSE Ret(<<>>)   \* ValueError, caught
         ELSE Ret(<<>>)
    ELSE Ret(<<>>)

-----------------------------------------------------------------------------
(* collect_all                                                             *)

Family(name, help, type) == <<Help(name, help), Type(name, type)>>

\* The help/type annotations collect_all starts its list with.
Annotations ==
    Family("vpn_tunnel_status", "VPN tunnel status (1=up, 0=down)", "gauge")
    \o Family("wireguard_peer_receive_bytes_total",
              "Total bytes received from WireGuard peer", "counter")
    \o Family("wireguard_peer_transmit_bytes_total",
              "Total bytes sent to WireGuard peer", "counter")
    \o Family("vpn_latency_ms", "VPN tunnel latency in milliseconds", "gauge")
    \o Family("vpn_interface_rx_bytes", "Network interface received bytes", "counter")
    \o Family("vpn_interface_tx_bytes", "Network interface transmitted bytes", "counter")
    \o Family("ipsec_connections_established",
              "Number of established IPsec connections", "gauge")

InfoSample == Sample("vpn_exporter_info", <<<<"version", T("1.0.0")>>>>, T("1"))

\* A mutant of ExporterInfo: the info gauge carries the clock.
ExporterInfoClock(t) ==
    Family("vpn_exporter_info", "VPN metrics exporter info", "gauge")
    \o <<Sample("vpn_exporter_info", <<<<"version", T("1.0.0")>>>>, Str(t)),
         Sample("vpn_exporter_scrape_timestamp", <<>>, Str(t))>>

\* What collect_all ends its list with, at second t.
ExporterInfo(t) ==
    Family("vpn_exporter_info", "VPN metrics exporter info", "gauge")
    \o <<InfoSample, Sample("vpn_exporter_scrape_timestamp", <<>>, Str(t))>>

\* '\n'.join(lines) + '\n': the lines, and whether the last one is ended.
Join(lines) == [lines |-> lines, newline |-> TRUE]

NoBody == [lines |-> <<>>, newline |-> FALSE]

OkBody == [lines |-> <<[kind |-> "text", name |-> "OK", labels |-> <<>>, value |-> <<>>]>>,
           newline |-> FALSE]

-----------------------------------------------------------------------------
(* The inputs: what the probed system can answer.                          *)

\* The injective sequences over S of length at most n.
InjSeqs(S, n) ==
    UNION { { q \in [1..k -> S] : \A i, j \in 1..k : q[i] = q[j] => i = j } : k \in 0..n }

KeyA == Rep("A", TruncLen) \o <<"x">>
KeyA2 == Rep("A", TruncLen) \o <<"y">>    \* KeyA's first 12 characters
KeyB == Rep("B", TruncLen) \o <<"x">>
KeyC == Rep("C", TruncLen) \o <<"x">>

\* One peer line of 'wg show <interface> dump'.
Peer(key, endpoint, handshake, rx, tx, keepalive) ==
    <<key, T("(none)"), endpoint, T("10.0.0.2/32"), handshake, rx, tx, keepalive>>

PeerA == Peer(KeyA, NONE, <<"7">>, <<"1">>, <<"2">>, T("off"))
PeerA2 == Peer(KeyA2, NONE, <<"8">>, <<"3">>, <<"4">>, T("off"))
PeerB == Peer(KeyB, T("192.0.2.1:51820"), <<"9">>, <<"5", "0">>, <<"6">>, <<"2", "5">>)
\* Eight fields, the last one empty.
PeerC == Peer(KeyC, NONE, <<"0">>, <<"7">>, <<"8">>, EMPTY)
\* Fewer than eight fields.
ShortLine == <<KeyC, T("(none)")>>
BlankLine == <<EMPTY>>

\* The records the bounded dumps are made of.
PeerRecords == {PeerA, PeerB, PeerC}

WgHeader == <<T("privkey"), T("pubkey"), T("51820"), T("off")>>

\* The dumps: the interface line and up to MaxPeers records; two peers whose
\* keys start alike; a dump ended by a newline; an empty output; dumps with a
\* record of too few fields.
WgDumps == { <<WgHeader>> \o recs : recs \in InjSeqs(PeerRecords, MaxPeers) }
           \cup { <<WgHeader, PeerA, PeerA2>>, <<WgHeader, PeerA, BlankLine>>,
                  <<BlankLine>>, <<WgHeader, PeerC, ShortLine>>,
                  <<WgHeader, ShortLine, PeerB>> }

WgResults == {NotFound, Timeout, Failed, Exit(1, <<>>)} \cup { Exit(0, d) : d \in WgDumps }

IpsecTexts ==
    { <<>>,
      << <<"INSTALLED", ",">>, <<"5">>, <<"bytes_i">>, <<"7">>, <<"bytes_o", ",">> >>,
      << <<"ESTABLISHED">>, <<"ESTABLISHED">>, <<"INSTALLED">>, <<"INSTALLED">>,
         <<"INSTALLED">>, <<"789012">>, <<"bytes_o">> >> }

IpsecResults == {NotFound, Timeout, Failed, Exit(1, <<>>)} \cup { Exit(0, t) : t \in IpsecTexts }

Stats(n) == [i \in 1..n |-> Str(i)]

IfWg0 == << <<" ", " ", "w", "g", "0">>, Stats(16) >>
IfLo == << <<" ", " ", " ", " ", "l", "o">>, Stats(16) >>
\* Too few counters.
IfEns3 == << <<" ", "e", "n", "s", "3">>, Stats(8) >>
\* An alias, "eth0:1: ...": three parts.
IfAlias == << <<"e", "t", "h", "0">>, <<"1">>, Stats(16) >>

IfTableHeader == << << <<"Inter-|">> >>, << <<"face">> >> >>

IfTables ==
    { <<>>, IfTableHeader \o <<IfWg0, IfLo>>,
      IfTableHeader \o <<IfEns3, IfAlias>> }

NetResults == {Failed} \cup { Exit(0, t) : t \in IfTables }

PingResults ==
    { NotFound, Timeout, Exit(1, <<>>), Exit(0, <<>>),
      Exit(0, << <<"1", "2", ".", "5", "0">> >>),
      Exit(0, << <<"1", ".", "2", ".", "3">> >>) }

Paths == {"/metrics", "/health", "/", "/metrics/"}

Subsystems == {"wg", "ipsec", "net", "ping"}

-----------------------------------------------------------------------------
(* The server.                                                             *)

NoResponse == [path |-> "", status |-> 0, body |-> NoBody]

\* The request handlers in flight, one per connection.
Handlers == 1..NumHandlers

NoResults == [wg |-> NoRes, ipsec |-> NoRes, net |-> NoRes, ping |-> NoRes]

Init ==
    /\ WIREGUARD_INTERFACE = T("wg0")
    /\ IPSEC_CHECK \in BOOLEAN
    /\ now = 0
    /\ pc = "idle"
    /\ path = ""
    /\ all_metrics = <<>>
    /\ escaped = FALSE
    /\ wgRes = NoRes /\ ipsecRes = NoRes /\ netRes = NoRes /\ pingRes = NoRes
    /\ probed = <<>>
    /\ seg = [s \in Subsystems |-> <<>>]
    /\ cycles = 0
    /\ response = NoResponse
    /\ frozen = FALSE
    /\ prevBody = NoBody
    /\ self_metrics = <<>>
    /\ self_labels = <<>>
    /\ hpc = [h \in Handlers |-> "idle"]
    /\ hres = [h \in Handlers |-> NoResults]
    /\ lists = [h \in Handlers |-> <<>>]
    /\ hresp = [h \in Handlers |-> NoResponse]
    /\ concurrent = [h \in Handlers |-> FALSE]

\* A second passes.
Tick ==
    /\ UNCHANGED thvars
    /\ now < MaxClock
    /\ now' = now + 1
    /\ UNCHANGED <<WIREGUARD_INTERFACE, IPSEC_CHECK, pc, path, all_metrics, escaped,
                   wgRes, ipsecRes, netRes, pingRes, probed, seg, cycles, response,
                   frozen, prevBody>>

\* The server takes the next GET request.  With f the probed system stays,
\* for this scrape, in the state the previous scrape found it in.
Receive(p, f) ==
    /\ UNCHANGED thvars
    /\ pc = "idle"
    /\ f => p = "/metrics" /\ response.path = "/metrics" /\ response.status = 200
    /\ pc' = "do_GET"
    /\ path' = p
    /\ frozen' = f
    /\ prevBody' = IF f THEN response.body ELSE NoBody
    /\ IF f THEN UNCHANGED <<wgRes, ipsecRes, netRes, pingRes>>
       ELSE wgRes' = NoRes /\ ipsecRes' = NoRes /\ netRes' = NoRes /\ pingRes' = NoRes
    /\ all_metrics' = <<>>
    /\ escaped' = FALSE
    /\ probed' = <<>>
    /\ seg' = [s \in Subsystems |-> <<>>]
    /\ cycles' = 0
    /\ response' = NoResponse
    /\ UNCHANGED <<WIREGUARD_INTERFACE, IPSEC_CHECK, now>>

\* A mutant of Route: /health runs a collection too.
RouteHealthCollects(p) ==
    IF p = "/metrics" \/ p = "/health" THEN "metrics" ELSE "notfound"

\* The branch do_GET takes.
Route(p) ==
    IF p = "/metrics" THEN "metrics"
    ELSE IF p = "/health" THEN "health"
    ELSE "notfound"

\* do_GET, path /health
Health ==
    /\ UNCHANGED thvars
    /\ pc = "do_GET" /\ Route(path) = "health"
    /\ response' = [path |-> path, status |-> 200, body |-> OkBody]
    /\ pc' = "idle"
    /\ UNCHANGED <<WIREGUARD_INTERFACE, IPSEC_CHECK, now, path, all_metrics, escaped,
                   wgRes, ipsecRes, netRes, pingRes, probed, seg, cycles, frozen, prevBody>>

\* do_GET, any other path
NotFoundPath ==
    /\ UNCHANGED thvars
    /\ pc = "do_GET" /\ Route(path) = "notfound"
    /\ response' = [path |-> path, status |-> 404, body |-> NoBody]
    /\ pc' = "idle"
    /\ UNCHANGED <<WIREGUARD_INTERFACE, IPSEC_CHECK, now, path, all_metrics, escaped,
                   wgRes, ipsecRes, netRes, pingRes, probed, seg, cycles, frozen, prevBody>>

\* do_GET, path /metrics: collect_all starts its list.
CollectBegin ==
    /\ UNCHANGED thvars
    /\ pc = "do_GET" /\ Route(path) = "metrics"
    /\ cycles' = cycles + 1
    /\ all_metrics' = Annotations
    /\ pc' = "wg"
    /\ UNCHANGED <<WIREGUARD_INTERFACE, IPSEC_CHECK, now, path, escaped, response,
                   wgRes, ipsecRes, netRes, pingRes, probed, seg, frozen, prevBody>>

\* all_metrics.extend(<collector s>()), the collector having returned ret;
\* an exception that leaves the collector leaves collect_all and do_GET, and
\* the connection is closed with nothing sent.
Extend(s, ret, next) ==
    IF ret.raised
    THEN /\ escaped' = TRUE
         /\ pc' = "idle"
         /\ response' = [path |-> path, status |-> 0, body |-> NoBody]
         /\ UNCHANGED <<all_metrics, seg>>
    ELSE /\ all_metrics' = all_metrics \o ret.lines
         /\ seg' = [seg EXCEPT ![s] = ret.lines]
         /\ pc' = next
         /\ UNCHANGED <<escaped, response>>

ProbeWg ==
    /\ UNCHANGED thvars
    /\ pc = "wg"
    /\ \E r \in WgResults :
        /\ frozen => r = wgRes
        /\ wgRes' = r
        /\ Extend("wg", collect_wireguard_metrics(WIREGUARD_INTERFACE, r), "ipsec")
    /\ probed' = Append(probed, "wg")
    /\ UNCHANGED <<WIREGUARD_INTERFACE, IPSEC_CHECK, now, path, ipsecRes, netRes,
                   pingRes, cycles, frozen, prevBody>>

ProbeIpsec ==
    /\ UNCHANGED thvars
    /\ pc = "ipsec"
    /\ IF IPSEC_CHECK
       THEN /\ \E r \in IpsecResults :
                /\ frozen => r = ipsecRes
                /\ ipsecRes' = r
                /\ Extend("ipsec", collect_ipsec_metrics(IPSEC_CHECK, r), "net")
            /\ probed' = Append(probed, "ipsec")
       ELSE /\ Extend("ipsec", collect_ipsec_metrics(IPSEC_CHECK, NoRes), "net")
            /\ UNCHANGED <<ipsecRes, probed>>
    /\ UNCHANGED <<WIREGUARD_INTERFACE, IPSEC_CHECK, now, path, wgRes, netRes,
                   pingRes, cycles, frozen, prevBody>>

ProbeNet ==
    /\ UNCHANGED thvars
    /\ pc = "net"
    /\ \E r \in NetResults :
        /\ frozen => r = netRes
        /\ netRes' = r
        /\ Extend("net", collect_network_interface_metrics(r), "ping")
    /\ probed' = Append(probed, "net")
    /\ UNCHANGED <<WIREGUARD_INTERFACE, IPSEC_CHECK, now, path, wgRes, ipsecRes,
                   pingRes, cycles, frozen, prevBody>>

ProbePing ==
    /\ UNCHANGED thvars
    /\ pc = "ping"
    /\ \E r \in PingResults :
        /\ frozen => r = pingRes
        /\ pingRes' = r
        /\ Extend("ping", collect_latency_metrics(r), "info")
    /\ probed' = Append(probed, "ping")
    /\ UNCHANGED <<WIREGUARD_INTERFACE, IPSEC_CHECK, now, path, wgRes, ipsecRes,
                   netRes, cycles, frozen, prevBody>>

\* collect_all ends its list and joins it; do_GET sends it.
Respond ==
    /\ UNCHANGED thvars
    /\ pc = "info"
    /\ all_metrics' = all_metrics \o ExporterInfo(now)
    /\ response' = [path |-> path, status |-> 200, body |-> Join(all_metrics')]
    /\ pc' = "idle"
    /\ UNCHANGED <<WIREGUARD_INTERFACE, IPSEC_CHECK, now, path, escaped, wgRes,
                   ipsecRes, netRes, pingRes, probed, seg, cycles, frozen, prevBody>>

Next ==
    \/ Tick
    \/ \E p \in Paths, f \in BOOLEAN : Receive(p, f)
    \/ Health
    \/ NotFoundPath
    \/ CollectBegin
    \/ ProbeWg
    \/ ProbeIpsec
    \/ ProbeNet
    \/ ProbePing
    \/ Respond

Spec == Init /\ [][Next]_vars

-----------------------------------------------------------------------------
(* The server with its handlers side by side.  HTTPServer handles one       *)
(* request at a time, a threading server one per thread; all handlers call  *)
(* collect_all on the one VPNMetrics object of the MetricsHandler class.    *)
(* The steps of the handlers interleave in every order, the orders of the   *)
(* one-at-a-time server among them.  Every request is GET /metrics.         *)

\* What the probes of these scrapes can answer.
ThWgResults == {NotFound, Exit(0, <<WgHeader, PeerA>>)}

ThIpsecResults == { Exit(0, << <<"ESTABLISHED">>, <<"INSTALLED">> >>) }

ThNetResults == {Failed}

ThPingResults == { Exit(0, << <<"1", "2", ".", "5", "0">> >>) }

\* A mutant of Cell: collect_all keeps its list on the collector object.
CellOnCollector(h) == 1

\* The list object collect_all works on in handler h: "all_metrics = []"
\* makes a list for each call.
Cell(h) == h

\* The handlers at work on a scrape.
Busy == { g \in Handlers : hpc[g] # "idle" }

\* do_GET of handler h, path /metrics: collect_all starts its list.
ThBegin(h) ==
    /\ hpc[h] = "idle"
    /\ hpc' = [hpc EXCEPT ![h] = "wg"]
    /\ hres' = [hres EXCEPT ![h] = NoResults]
    /\ hresp' = [hresp EXCEPT ![h] = NoResponse]
    /\ lists' = [lists EXCEPT ![Cell(h)] = Annotations]
    /\ concurrent' = [g \in Handlers |->
                         IF g = h THEN Busy # {} ELSE concurrent[g] \/ g \in Busy]
    /\ UNCHANGED <<WIREGUARD_INTERFACE, IPSEC_CHECK, now, self_metrics, self_labels>>
    /\ UNCHANGED seqvars

\* all_metrics.extend(<collector s>()) in handler h, the probe having
\* answered r and the collector having returned ret.
ThExtend(h, s, r, ret, next) ==
    /\ hres' = [hres EXCEPT ![h][s] = r]
    /\ IF ret.raised
       THEN /\ hpc' = [hpc EXCEPT ![h] = "idle"]
            /\ hresp' = [hresp EXCEPT ![h] = [path |-> "/metrics", status |-> 0,
                                              body |-> NoBody]]
            /\ UNCHANGED lists
       ELSE /\ lists' = [lists EXCEPT ![Cell(h)] = @ \o ret.lines]
            /\ hpc' = [hpc EXCEPT ![h] = next]
            /\ UNCHANGED hresp
    /\ UNCHANGED <<WIREGUARD_INTERFACE, IPSEC_CHECK, now, self_metrics, self_labels,
                   concurrent>>
    /\ UNCHANGED seqvars

ThProbeWg(h) ==
    /\ hpc[h] = "wg"
    /\ \E r \in ThWgResults :
        ThExtend(h, "wg", r, collect_wireguard_metrics(WIREGUARD_INTERFACE, r), "ipsec")

ThProbeIpsec(h) ==
    /\ hpc[h] = "ipsec"
    /\ IF IPSEC_CHECK
       THEN \E r \in ThIpsecResults :
                ThExtend(h, "ipsec", r, collect_ipsec_metrics(IPSEC_CHECK, r), "net")
       ELSE ThExtend(h, "ipsec", NoRes, collect_ipsec_metrics(IPSEC_CHECK, NoRes), "net")

ThProbeNet(h) ==
    /\ hpc[h] = "net"
    /\ \E r \in ThNetResults :
        ThExtend(h, "net", r, collect_network_interface_metrics(r), "ping")

ThProbePing(h) ==
    /\ hpc[h] = "ping"
    /\ \E r \in ThPingResults :
        ThExtend(h, "ping", r, collect_latency_metrics(r), "info")

\* collect_all of handler h ends its list and joins it; do_GET sends it.
ThRespond(h) ==
    /\ hpc[h] = "info"
    /\ lists' = [lists EXCEPT ![Cell(h)] = @ \o ExporterInfo(now)]
    /\ hresp' = [hresp EXCEPT ![h] = [path |-> "/metrics", status |-> 200,
                                      body |-> Join(lists'[Cell(h)])]]
    /\ hpc' = [hpc EXCEPT ![h] = "idle"]
    /\ UNCHANGED <<WIREGUARD_INTERFACE, IPSEC_CHECK, now, self_metrics, self_labels,
                   hres, concurrent>>
    /\ UNCHANGED seqvars

ThNext ==
    \/ Tick
    \/ \E h \in Handlers : ThBegin(h)
    \/ \E h \in Handlers : ThProbeWg(h)
    \/ \E h \in Handlers : ThProbeIpsec(h)
    \/ \E h \in Handlers : ThProbeNet(h)
    \/ \E h \in Handlers : ThProbePing(h)
    \/ \E h \in Handlers : ThRespond(h)

ThreadedSpec == Init /\ [][ThNext]_vars

-----------------------------------------------------------------------------
(* Vocabulary of the properties.                                           *)

\* A /metrics request has been handled to its end.
Scraped == pc = "idle" /\ path = "/metrics"

BodyLines == response.body.lines

InBody(l) == \E i \in 1..Len(BodyLines) : BodyLines[i] = l

Has(lines, l) == \E i \in 1..Len(lines) : lines[i] = l

Ran(s) == \E i \in 1..Len(probed) : probed[i] = s

\* The probe ended in a failure: not found, timeout, exception, non-zero exit.
Failing(r) == r.tag \in {"not_found", "timeout", "exception"} \/ (r.tag = "exit" /\ r.rc # 0)

\* The tool ran and exited 0.
Ok(r) == r.tag = "exit" /\ r.rc = 0

HasLabel(l, k, v) == \E i \in 1..Len(l.labels) : l.labels[i] = <<k, v>>

HasLabelKey(l, k) == \E i \in 1..Len(l.labels) : l.labels[i][1] = k

LabelOf(l, k) == l.labels[CHOOSE i \in 1..Len(l.labels) : l.labels[i][1] = k][2]

\* The lines of name n among lines.
RECURSIVE Named(_, _, _)
Named(lines, kind, n) ==
    IF lines = <<>> THEN <<>>
    ELSE (IF Head(lines).kind = kind /\ Head(lines).name = n THEN <<Head(lines)>> ELSE <<>>)
         \o Named(Tail(lines), kind, n)

\* An error-diagnostic sample of the subsystem labelled vpn_type = vt.
ErrorSampleOf(lines, vt) ==
    \E i \in 1..Len(lines) :
        /\ lines[i].kind = "sample" /\ lines[i].name = "vpn_exporter_error"
        /\ HasLabel(lines[i], "vpn_type", T(vt))

\* The status sample of the subsystem labelled vpn_type = vt has value v.
StatusSampleOf(lines, vt, v) ==
    \E i \in 1..Len(lines) :
        /\ lines[i].kind = "sample" /\ lines[i].name = "vpn_tunnel_status"
        /\ HasLabel(lines[i], "vpn_type", T(vt))
        /\ lines[i].value = T(v)

-----------------------------------------------------------------------------
(* C1: for the WireGuard probe and the IPsec probe of a scrape, an         *)
(* Unavailable (not found) or ExecutionError (non-zero exit, unexpected    *)
(* exception) outcome puts in the output the subsystem's                   *)
(* vpn_tunnel_status sample with value 0 and a vpn_exporter_error sample   *)
(* of the subsystem; an Ok outcome (exit 0) puts the status sample with    *)
(* value 1.  The code does not do this for a non-zero exit (no error       *)
(* sample) nor for an exception (no status sample).                        *)
ExecutionError(r) == r.tag = "exception" \/ (r.tag = "exit" /\ r.rc # 0)

Unavailable(r) == r.tag = "not_found"

OutcomeSignalled(r, vt) ==
    /\ (Unavailable(r) \/ ExecutionError(r))
          => StatusSampleOf(BodyLines, vt, "0") /\ ErrorSampleOf(BodyLines, vt)
    /\ Ok(r) => StatusSampleOf(BodyLines, vt, "1")

\* C1: each outcome of the two probes is signalled as stated above.
C1_ProbeOutcomeSignalled ==
    Scraped =>
        /\ OutcomeSignalled(wgRes, "wireguard")
        /\ IPSEC_CHECK => OutcomeSignalled(ipsecRes, "ipsec")

-----------------------------------------------------------------------------
(* C2: whatever the four probes of a scrape answer (ok, not found,         *)
(* non-zero exit, timeout, exception), the /metrics request is answered    *)
(* with status 200 and a non-empty body ended by a newline, every line of  *)
(* which is a HELP or TYPE comment or a sample line (a name, an optional   *)
(* label set, a numeric value), and which holds the vpn_exporter_info      *)
(* sample; no exception leaves collect_all.                                *)
NumberChars == Digits \cup {"."} \cup NumChunks

IsNumber(v) == v # <<>> /\ \A i \in 1..Len(v) : v[i] \in NumberChars

WellFormedLine(l) ==
    /\ l.name # ""
    /\ \/ l.kind = "help" /\ l.value # <<>>
       \/ l.kind = "type" /\ l.value \in {T("counter"), T("gauge")}
       \/ /\ l.kind = "sample"
          /\ IsNumber(l.value)
          /\ \A i \in 1..Len(l.labels) : Len(l.labels[i]) = 2 /\ l.labels[i][1] # ""

\* C2: a scrape is answered 200 with a well-formed text, whatever the probes
\* answered, and no exception left collect_all.
C2_ScrapeAlwaysWellFormed ==
    Scraped =>
        /\ ~escaped
        /\ response.status = 200
        /\ BodyLines # <<>>
        /\ response.body.newline
        /\ \A i \in 1..Len(BodyLines) : WellFormedLine(BodyLines[i])
        /\ InBody(InfoSample)

\* A scrape in which every subsystem failed, each in another way.
C2_AllSubsystemsFailed ==
    /\ Scraped /\ IPSEC_CHECK
    /\ wgRes.tag = "timeout" /\ ipsecRes.tag = "exception"
    /\ netRes.tag = "exception" /\ pingRes.tag = "not_found"
    /\ response.status = 200

-----------------------------------------------------------------------------
(* C3: in a scrape, the failure of one subsystem's probe (not found,       *)
(* non-zero exit, timeout, exception) does not keep the subsystems after   *)
(* it from being probed, and the sample lines the other subsystems         *)
(* contribute are those they contribute when the failing subsystem         *)
(* succeeds instead.                                                       *)

\* What each collector contributes to the scrape in which the four probes
\* answer w, i, n and p: collect_all calls them in this order, and an
\* exception that leaves one ends the scrape.
Contributions(w, i, n, p) ==
    LET a == collect_wireguard_metrics(WIREGUARD_INTERFACE, w)
        b == collect_ipsec_metrics(IPSEC_CHECK, i)
        c == collect_network_interface_metrics(n)
        d == collect_latency_metrics(p)
    IN  [wg |-> IF a.raised THEN <<>> ELSE a.lines,
         ipsec |-> IF a.raised \/ b.raised THEN <<>> ELSE b.lines,
         net |-> IF a.raised \/ b.raised \/ c.raised THEN <<>> ELSE c.lines,
         ping |-> IF a.raised \/ b.raised \/ c.raised \/ d.raised THEN <<>> ELSE d.lines]

ExpectedProbes ==
    IF IPSEC_CHECK THEN <<"wg", "ipsec", "net", "ping">> ELSE <<"wg", "net", "ping">>

OkOf(results) == { r \in results : Ok(r) }

SameOthers(s, alt) == \A t \in Subsystems \ {s} : seg[t] = alt[t]

\* C3: after a failing probe the later probes run, and the other subsystems
\* contribute what they contribute when the failing one succeeds.
C3_FailureIsolated ==
    Scraped =>
        /\ probed = ExpectedProbes
        /\ Failing(wgRes) =>
              \A r \in OkOf(WgResults) :
                  SameOthers("wg", Contributions(r, ipsecRes, netRes, pingRes))
        /\ Failing(ipsecRes) =>
              \A r \in OkOf(IpsecResults) :
                  SameOthers("ipsec", Contributions(wgRes, r, netRes, pingRes))
        /\ Failing(netRes) =>
              \A r \in OkOf(NetResults) :
                  SameOthers("net", Contributions(wgRes, ipsecRes, r, pingRes))
        /\ Failing(pingRes) =>
              \A r \in OkOf(PingResults) :
                  SameOthers("ping", Contributions(wgRes, ipsecRes, netRes, r))

\* The first probe ended in an exception and the later collectors gave samples.
C3_LaterProbesAfterFailure ==
    /\ Scraped /\ IPSEC_CHECK
    /\ wgRes.tag = "exception"
    /\ Ok(ipsecRes) /\ Len(seg["ipsec"]) = 5
    /\ Ok(netRes) /\ Len(seg["net"]) = 6
    /\ Ok(pingRes) /\ Len(seg["ping"]) = 1

-----------------------------------------------------------------------------
(* C4: every probe failure of a scrape (not found, timeout, non-zero       *)
(* exit, exception), in any of the four subsystems, the latency probe      *)
(* included, leaves at least one sample in that scrape's output: a status  *)
(* sample with value 0 of the failing subsystem or a vpn_exporter_error    *)
(* sample with value 1 and a reason label.  The code drops the failures    *)
(* of the latency probe.                                                   *)
FailureSample(l) ==
    /\ l.kind = "sample"
    /\ \/ l.name = "vpn_tunnel_status" /\ l.value = T("0")
       \/ l.name = "vpn_exporter_error" /\ l.value = T("1") /\ HasLabelKey(l, "error")

\* The collector of s put a failure sample in the output.
FailureVisible(s) ==
    \E i \in 1..Len(seg[s]) : FailureSample(seg[s][i]) /\ InBody(seg[s][i])

\* C4: each failing probe of a scrape left a failure sample in its output.
C4_EveryFailureVisible ==
    Scraped =>
        /\ Failing(wgRes) => FailureVisible("wg")
        /\ Failing(ipsecRes) => FailureVisible("ipsec")
        /\ Failing(netRes) => FailureVisible("net")
        /\ Failing(pingRes) => FailureVisible("ping")

-----------------------------------------------------------------------------
(* C5: for a successful WireGuard dump (exit 0) of one interface line and  *)
(* N >= 0 well-formed peer records (8 tab-delimited fields, as wg prints   *)
(* them: none empty), the collector emits exactly N                        *)
(* wireguard_peer_receive_bytes_total and exactly N                        *)
(* wireguard_peer_transmit_bytes_total samples, each uniquely labelled by  *)
(* a truncated public key; for N = 0 the status sample is 1 and there is   *)
(* no peer sample.                                                         *)
WellFormedRecord(parts) == Len(parts) = 8 /\ \A i \in 1..8 : parts[i] # EMPTY

WellFormedDump(d) ==
    /\ Len(d) >= 1
    /\ \A i \in 1..Len(d[1]) : d[1][i] # EMPTY
    /\ \A k \in 2..Len(d) : WellFormedRecord(d[k])

\* The WireGuard collector of this scrape has read a well-formed dump.
WgReadWellFormed == Ran("wg") /\ Ok(wgRes) /\ WellFormedDump(wgRes.stdout)

NPeers == Len(wgRes.stdout) - 1

RxSamples == Named(seg["wg"], "sample", "wireguard_peer_receive_bytes_total")

TxSamples == Named(seg["wg"], "sample", "wireguard_peer_transmit_bytes_total")

PeerCounts ==
    /\ Len(RxSamples) = NPeers
    /\ Len(TxSamples) = NPeers
    /\ Has(seg["wg"], WgStatus(WIREGUARD_INTERFACE, "1"))
    /\ NPeers = 0 => seg["wg"] = <<WgStatus(WIREGUARD_INTERFACE, "1")>>

UniqueKeyLabels(samples) ==
    \A i, j \in 1..Len(samples) :
        i # j => LabelOf(samples[i], "public_key") # LabelOf(samples[j], "public_key")

First12(key) == SubSeq(key, 1, 12)

\* The k-th sample carries the first 12 characters of the k-th record's key
\* and "...", and two samples whose keys differ there differ in the label.
KeyLabels(samples) ==
    /\ \A k \in 1..Len(samples) :
          LabelOf(samples[k], "public_key") = First12(wgRes.stdout[k + 1][1]) \o <<"...">>
    /\ \A i, j \in 1..Len(samples) :
          First12(wgRes.stdout[i + 1][1]) # First12(wgRes.stdout[j + 1][1])
              => LabelOf(samples[i], "public_key") # LabelOf(samples[j], "public_key")

-----------------------------------------------------------------------------
(* C6: in a successful dump, a record with fewer than 8 tab-delimited      *)
(* fields is skipped without raising, and the samples of the valid records *)
(* (labels, values, order) are those of the dump with the malformed        *)
(* records removed.  The strip of the whole output makes the last record   *)
(* depend on what follows it.                                              *)
Valid(parts) == Len(parts) >= 8

WithoutMalformed(d) == <<d[1]>> \o SelectSeq(Tail(d), Valid)

\* C6: the samples of a dump are those of the dump without its records of
\* fewer than 8 fields, and nothing is raised.
C6_MalformedRecordsSkipped ==
    Ran("wg") /\ Ok(wgRes) =>
        /\ ~escaped
        /\ seg["wg"] = collect_wireguard_metrics(
                           WIREGUARD_INTERFACE, Exit(0, WithoutMalformed(wgRes.stdout))).lines

-----------------------------------------------------------------------------
(* C7: in the output of every scrape no two sample lines have the same     *)
(* (metric name, label set) pair; of two samples that would, only the      *)
(* first is kept.  The code keeps both.                                    *)
SameSeries(a, b) == a.kind = "sample" /\ b.kind = "sample" /\ a.name = b.name
                    /\ a.labels = b.labels

\* C7: no two sample lines of a scrape share name and label set.
C7_NoDuplicateSeries ==
    Scraped /\ response.status = 200 =>
        \A i, j \in 1..Len(BodyLines) : i # j => ~SameSeries(BodyLines[i], BodyLines[j])

-----------------------------------------------------------------------------
(* C8: two calls of collect_all with the same underlying system state      *)
(* (tool outputs, exit codes, /proc/net/dev content) give two texts that   *)
(* are identical line for line, with the same family and label order.      *)

\* This scrape found the system as the previous scrape did, and both were
\* answered.
Repeated == Scraped /\ frozen /\ response.status = 200

\* C8 as claimed: the text of the repeated scrape is the text of the first.
C8_RepeatedScrapeIdentical == Repeated => response.body = prevBody

\* The line with the value of the scrape timestamp blanked.
Masked(l) ==
    IF l.kind = "sample" /\ l.name = "vpn_exporter_scrape_timestamp"
    THEN [l EXCEPT !.value = <<>>]
    ELSE l

MaskedBody(b) == [b EXCEPT !.lines = [i \in 1..Len(b.lines) |-> Masked(b.lines[i])]]

\* C8, amended: the two texts are identical line for line but for the value
\* of the vpn_exporter_scrape_timestamp sample, which is the second of the
\* clock at which each call ends its list.
C8_RepeatedScrapeIdenticalButTimestamp ==
    Repeated => MaskedBody(response.body) = MaskedBody(prevBody)

\* The same system state scraped again in a later second: the texts differ.
C8_RepeatedInLaterSecond ==
    /\ Repeated
    /\ Ok(wgRes) /\ Len(wgRes.stdout) = 3
    /\ response.body # prevBody

-----------------------------------------------------------------------------
(* C9: in the output of every scrape every metric family the exporter can  *)
(* emit has its HELP and its TYPE line exactly once, whether or not the    *)
(* family has a sample in that scrape.  The code annotates eight of the    *)
(* eighteen.                                                               *)

\* The names of the sample lines of the collectors and of collect_all.
MetricFamilies ==
    { "vpn_tunnel_status", "wireguard_peer_receive_bytes_total",
      "wireguard_peer_transmit_bytes_total", "wireguard_peer_last_handshake_seconds",
      "vpn_exporter_error", "ipsec_connections_established", "ipsec_sas_installed",
      "ipsec_receive_bytes_total", "ipsec_transmit_bytes_total",
      "vpn_interface_rx_bytes", "vpn_interface_tx_bytes", "vpn_interface_rx_packets",
      "vpn_interface_tx_packets", "vpn_interface_rx_errors", "vpn_interface_tx_errors",
      "vpn_latency_ms", "vpn_exporter_info", "vpn_exporter_scrape_timestamp" }

\* C9: each family of the exporter has one HELP and one TYPE line in every
\* scrape.
C9_EveryFamilyAnnotated ==
    Scraped /\ response.status = 200 =>
        \A n \in MetricFamilies :
            Len(Named(BodyLines, "help", n)) = 1 /\ Len(Named(BodyLines, "type", n)) = 1

-----------------------------------------------------------------------------
(* C10: a request for /health is answered 200 and runs no probe; a request *)
(* for a path other than /metrics and /health is answered 404 and runs no  *)
(* probe; only a request for /metrics starts a collection cycle, and one   *)
(* cycle only.                                                             *)
\* C10: /health answers 200 and other paths 404 without a probe or a cycle;
\* /metrics runs exactly one cycle.
C10_RoutesDispatched ==
    /\ cycles <= 1
    /\ (cycles > 0 \/ probed # <<>>) => path = "/metrics"
    /\ pc = "idle" /\ path = "/health" => response.status = 200 /\ response.body = OkBody
    /\ pc = "idle" /\ path \notin {"", "/metrics", "/health"} =>
          response.status = 404 /\ response.body = NoBody
    /\ Scraped => cycles = 1 /\ response.status = 200

\* A /health request answered between scrapes, no probe run.
C10_HealthAnswered ==
    /\ pc = "idle" /\ path = "/health"
    /\ response.status = 200 /\ probed = <<>> /\ cycles = 0
    /\ now > 0

-----------------------------------------------------------------------------
(* C12: when the wg binary is not found, the output of the scrape holds    *)
(* the vpn_tunnel_status sample labelled vpn_type="wireguard" with value   *)
(* 0, exactly one error-diagnostic sample for WireGuard and no WireGuard   *)
(* peer sample, and the request is answered 200; the same for the IPsec    *)
(* probe when the ipsec binary is not found.                               *)
ErrorSamplesOf(lines, vt) ==
    { i \in 1..Len(lines) :
        /\ lines[i].kind = "sample" /\ lines[i].name = "vpn_exporter_error"
        /\ HasLabel(lines[i], "vpn_type", T(vt)) }

StatusSamplesOf(lines, vt) ==
    { i \in 1..Len(lines) :
        /\ lines[i].kind = "sample" /\ lines[i].name = "vpn_tunnel_status"
        /\ HasLabel(lines[i], "vpn_type", T(vt)) }

PeerFamilies ==
    { "wireguard_peer_receive_bytes_total", "wireguard_peer_transmit_bytes_total",
      "wireguard_peer_last_handshake_seconds" }

\* The one status sample of the subsystem is 0 and it has one error sample.
DownWithOneError(vt) ==
    /\ Cardinality(StatusSamplesOf(BodyLines, vt)) = 1
    /\ \A i \in StatusSamplesOf(BodyLines, vt) : BodyLines[i].value = T("0")
    /\ Cardinality(ErrorSamplesOf(BodyLines, vt)) = 1

\* C12: a missing wg (ipsec) binary gives status 0, one error sample, no
\* peer sample, and the answer 200.
C12_BinaryAbsentSignalled ==
    Scraped =>
        /\ wgRes.tag = "not_found" =>
              /\ response.status = 200
              /\ DownWithOneError("wireguard")
              /\ HasLabel(BodyLines[CHOOSE i \in StatusSamplesOf(BodyLines, "wireguard") : TRUE],
                          "interface", WIREGUARD_INTERFACE)
              /\ \A i \in 1..Len(BodyLines) :
                    BodyLines[i].kind = "sample" => BodyLines[i].name \notin PeerFamilies
        /\ IPSEC_CHECK /\ ipsecRes.tag = "not_found" =>
              /\ response.status = 200
              /\ DownWithOneError("ipsec")

\* A scrape that found neither binary.
C12_BothBinariesAbsent ==
    /\ Scraped /\ IPSEC_CHECK
    /\ wgRes.tag = "not_found" /\ ipsecRes.tag = "not_found"
    /\ response.status = 200
    /\ InBody(ExporterError("wireguard", "wg_not_found"))
    /\ InBody(ExporterError("ipsec", "ipsec_not_found"))

-----------------------------------------------------------------------------
(* C13: for every IPsec status text returned with exit 0 the collector     *)
(* emits ipsec_connections_established equal to the number of occurrences  *)
(* of ESTABLISHED in the text and ipsec_sas_installed equal to the number  *)
(* of occurrences of INSTALLED (2 and 3 occurrences give 2 and 3).         *)

\* The places of the text that hold the keyword.
Occurrences(text, keyword) ==
    UNION { { <<w, c>> : c \in { k \in 1..Len(text[w]) : text[w][k] = keyword } } :
            w \in 1..Len(text) }

DigitValue(c) == CHOOSE d \in 0..9 : Digit(d) = c

\* The number a decimal text denotes.
RECURSIVE Number(_)
Number(v) == IF v = <<>> THEN 0 ELSE 10 * Number(Front(v)) + DigitValue(Last(v))

\* The IPsec collector of this scrape has read a status text.
IpsecRead == Ran("ipsec") /\ Ok(ipsecRes)

EstablishedSamples == Named(seg["ipsec"], "sample", "ipsec_connections_established")

InstalledSamples == Named(seg["ipsec"], "sample", "ipsec_sas_installed")

\* C13: the two gauges are the numbers of occurrences of the two keywords.
C13_KeywordCountsEmitted ==
    IpsecRead =>
        /\ Len(EstablishedSamples) = 1
        /\ Number(EstablishedSamples[1].value)
              = Cardinality(Occurrences(ipsecRes.stdout, "ESTABLISHED"))
        /\ Len(InstalledSamples) = 1
        /\ Number(InstalledSamples[1].value)
              = Cardinality(Occurrences(ipsecRes.stdout, "INSTALLED"))

\* A text with 2 ESTABLISHED and 3 INSTALLED has been read: the gauges are 2
\* and 3.
C13_TwoAndThree ==
    /\ IpsecRead
    /\ Cardinality(Occurrences(ipsecRes.stdout, "ESTABLISHED")) = 2
    /\ Cardinality(Occurrences(ipsecRes.stdout, "INSTALLED")) = 3
    /\ Has(seg["ipsec"], Sample("ipsec_connections_established", <<>>, <<"2">>))
    /\ Has(seg["ipsec"], Sample("ipsec_sas_installed", <<>>, <<"3">>))

-----------------------------------------------------------------------------
(* C11: for any interleaving of two or more /metrics requests, each        *)
(* request builds its snapshot from its own probe results: the collector   *)
(* object the handlers share holds no state that a scrape writes, and the  *)
(* text returned to one request neither contains nor lacks a sample line   *)
(* because of another request's collection cycle.                          *)

\* The lines the probe results of handler h's scrape give, up to the
\* exporter info.
OwnSnapshot(h) ==
    LET c == Contributions(hres[h].wg, hres[h].ipsec, hres[h].net, hres[h].ping)
    IN  Annotations \o c.wg \o c.ipsec \o c.net \o c.ping

Answered(h) == hpc[h] = "idle" /\ hresp[h].status = 200

\* C11: the fields of the shared collector stay as __init__ left them, and
\* the text every handler returns is, line for line (the value of the
\* timestamp aside), the one its own probe results give.
C11_ScrapesIndependent ==
    /\ self_metrics = <<>>
    /\ self_labels = <<>>
    /\ \A h \in Handlers :
          Answered(h) =>
              MaskedBody(hresp[h].body)
                  = MaskedBody(Join(OwnSnapshot(h) \o ExporterInfo(0)))

\* Two scrapes that overlapped, with different probe results, have both
\* been answered, with different texts.
C11_OverlappingScrapesAnswered ==
    \E g, h \in Handlers :
        /\ g # h
        /\ Answered(g) /\ Answered(h)
        /\ concurrent[g] /\ concurrent[h]
        /\ hres[g].wg # hres[h].wg
        /\ MaskedBody(hresp[g].body) # MaskedBody(hresp[h].body)

====
